---- MODULE Spec2Model ----
(***************************************************************************)
(* Orbit direction boundaries (preprocessing/orbit_directions_boundaries.py) *)
(* The product registry, the extrema accumulators, process_ranges and main. *)
(* Times are integer milliseconds (datetime64[ms]).                         *)
(***************************************************************************)
EXTENDS Integers, Sequences, FiniteSets, TLC

\* ------------------------------------------------------------- constants
SAMPLING == 1000
FLAG_START == 1
FLAG_END == -1
FLAG_MIDDLE == 0
FLAG_ASCENDING == 1
FLAG_DESCENDING == -1
FLAG_UNDEFINED == 0

\* FLAGS_ORBIT_DIRECTION[0], FLAGS_ORBIT_DIRECTION[1]
FLAGS_ORBIT_DIRECTION == <<FLAG_DESCENDING, FLAG_ASCENDING>>

LABEL_GEO == 1
LABEL_MAG == 2

\* gap_threshold=(SAMPLING * 1.5), set by main
GAP_THRESHOLD == (SAMPLING * 3) \div 2

\* ---------------------------------------------------------------- bounds
\* sample instants are 0, SAMPLING, ..., MaxSample*SAMPLING
MaxSample == 3
\* number of products named by the manifest
NumProducts == 2

\* main's run: sample instants are 0, SAMPLING, ..., MaxMainSample*SAMPLING
MaxMainSample == 4
MaxPoints == 5
\* SpecPair: the first range has 3 to MaxRangeLen samples
MaxRangeLen == 5
\* SpecWindow: the last instant of a telemetry window, in sampling steps
MaxWindowSample == 5
\* SpecFine: the greatest number of samples of a window
MaxFineLen == 5

Grid == {k * SAMPLING : k \in 0..MaxSample}
MainGrid == {k * SAMPLING : k \in 0..MaxMainSample}

\* the manifest main is run on names two products
MainManifest == <<1, 2>>

\* latitudes of the telemetry, in degrees
Lats == {-1, 0, 1}

\* eval_qdlatlon is an external model: here the quasi-dipole latitude is
\* the geographic latitude displaced by one degree
QD_DISPLACEMENT == 1

\* ------------------------------------------------------------- utilities
Min(a, b) == IF a <= b THEN a ELSE b
Max(a, b) == IF a >= b THEN a ELSE b

SetMin(S) == CHOOSE x \in S : \A y \in S : x <= y

RECURSIVE SetToSortedSeq(_)
SetToSortedSeq(S) ==
    IF S = {} THEN <<>>
    ELSE LET m == SetMin(S) IN <<m>> \o SetToSortedSeq(S \ {m})

\* the Timestamp array of a product file: sorted sample instants
TimeSets == {SetToSortedSeq(S) : S \in SUBSET Grid}

\* the Timestamp arrays of the product files of main's run
MainTimeSets == {SetToSortedSeq(S) : S \in SUBSET MainGrid}

\* Python list slice s[i:j] of a 0-based list, negative indices included
PyIndex(k, n) == IF k < 0 THEN Max(k + n, 0) ELSE Min(k, n)

PySlice(s, i, j) ==
    LET a == PyIndex(i, Len(s))
        b == PyIndex(j, Len(s))
    IN  IF a >= b THEN <<>> ELSE SubSeq(s, a + 1, b)

\* numpy nonzero(): the 0-based positions of TRUE in a boolean array
RECURSIVE nonzero_from(_, _)
nonzero_from(flags, k) ==
    IF k > Len(flags) THEN <<>>
    ELSE (IF flags[k] THEN <<k - 1>> ELSE <<>>) \o nonzero_from(flags, k + 1)

nonzero(flags) == nonzero_from(flags, 1)

\* --------------------------------------------------------------- state
VARIABLES
    files,      \* Timestamp arrays of the products read so far, by product
    ranges,     \* ProductRegistry.ranges: list of <<start, end, product>>
    selected,   \* last ProductRegistry.select call: its query and result
    pc,         \* position of main
    telemetry,  \* process_ranges: Latitude of the samples loaded so far
    acc,        \* process_ranges: accumulators (geographic, quasi-dipole)
    walked,     \* process_ranges: number of ranges walked
    previous_end,       \* process_ranges: previous_end
    previous_product,   \* process_ranges: previous_product
    frame,      \* main: position of the verify/write loop (1 geo, 2 mag)
    verified,   \* main: what verify() returned or raised, by frame
    output,     \* the output file of each frame
    error,      \* the exception that ended the run
    argv,       \* sys.argv
    exit_code,  \* the exit status of the process, once it has exited
    stderr,     \* what the entry point has printed to sys.stderr
    calls       \* process_ranges: the set_start, set_body and set_end calls
                \* issued so far, with the range walked, the accumulator
                \* called and the times of the window passed

vars == <<files, ranges, selected, pc, telemetry, acc, walked, previous_end,
          previous_product, frame, verified, output, error, argv, exit_code,
          stderr, calls>>

registry_vars == <<files, ranges, selected>>
run_vars == <<pc, telemetry, acc, walked, previous_end, previous_product,
              frame, verified, output, error>>
cli_vars == <<argv, exit_code, stderr>>

\* numpy's NaT (the minimal int64), what a non-finite float is cast to
NaT == -2147483647

\* ------------------------------------------------------ ProductRegistry
\* bisect.bisect_left(a, (x,)): a range tuple (s, e, p) < (x,) iff s < x
RECURSIVE bisect_left_loop(_, _, _, _)
bisect_left_loop(a, x, lo, hi) ==
    IF lo < hi
    THEN LET mid == (lo + hi) \div 2
         IN  IF a[mid + 1][1] < x
             THEN bisect_left_loop(a, x, mid + 1, hi)
             ELSE bisect_left_loop(a, x, lo, mid)
    ELSE lo

bisect_left(a, x) == bisect_left_loop(a, x, 0, Len(a))

\* bisect.bisect_right(a, (x,)): (x,) < (s, e, p) iff x <= s
RECURSIVE bisect_right_loop(_, _, _, _)
bisect_right_loop(a, x, lo, hi) ==
    IF lo < hi
    THEN LET mid == (lo + hi) \div 2
         IN  IF x <= a[mid + 1][1]
             THEN bisect_right_loop(a, x, lo, mid)
             ELSE bisect_right_loop(a, x, mid + 1, hi)
    ELSE lo

bisect_right(a, x) == bisect_right_loop(a, x, 0, Len(a))

\* the filter of select's list comprehension
Intersects(r, start, end) == r[1] <= end /\ r[2] >= start

select(rs, start, end) ==
    LET idx_start == bisect_right(rs, start) - 1
        idx_end == bisect_right(rs, end) + 1
    IN  SelectSeq(PySlice(rs, idx_start, idx_end),
                  LAMBDA r : Intersects(r, start, end))

\* mutant: the loop also passes a range that begins exactly at end
RECURSIVE idx_after_loop_closed(_, _, _)
idx_after_loop_closed(rs, idx_after, end) ==
    IF idx_after < Len(rs) /\ rs[idx_after + 1][1] <= end
    THEN idx_after_loop_closed(rs, idx_after + 1, end)
    ELSE idx_after

\* the while loop of _push_range
RECURSIVE idx_after_loop(_, _, _)
idx_after_loop(rs, idx_after, end) ==
    IF idx_after < Len(rs) /\ rs[idx_after + 1][1] < end
    THEN idx_after_loop(rs, idx_after + 1, end)
    ELSE idx_after

\* mutant: the new range is appended instead of inserted at idx_before
_push_range_appended(rs, start, end, product) ==
    LET idx_before == bisect_left(rs, start)
        idx_after == idx_after_loop(rs, idx_before, end)
    IN  IF idx_after > idx_before
        THEN PySlice(rs, 0, idx_before) \o <<<<start, end, product>>>>
                 \o PySlice(rs, idx_after, Len(rs))
        ELSE Append(rs, <<start, end, product>>)

_push_range(rs, start, end, product) ==
    LET idx_before == bisect_left(rs, start)
        idx_after == idx_after_loop(rs, idx_before, end)
    IN  IF idx_after > idx_before
        THEN PySlice(rs, 0, idx_before) \o <<<<start, end, product>>>>
                 \o PySlice(rs, idx_after, Len(rs))
        ELSE \* list.insert(idx_before, ...)
             PySlice(rs, 0, idx_before) \o <<<<start, end, product>>>>
                 \o PySlice(rs, idx_before, Len(rs))

\* [0] + list(gap_index + 1) + [times.size], 0-based positions
gap_index(times) ==
    LET gaps == nonzero([i \in 1..(Len(times) - 1) |->
                            times[i + 1] - times[i] > GAP_THRESHOLD])
    IN  <<0>> \o [j \in 1..Len(gaps) |-> gaps[j] + 1] \o <<Len(times)>>

\* mutant: the product is registered as one range, gaps included
_extract_ranges_whole(times) ==
    IF Len(times) < 1 THEN <<>>
    ELSE <<<<times[1], times[Len(times)]>>>>

\* mutant: an empty product registers a degenerate range
_extract_ranges_degenerate(times) ==
    IF Len(times) < 2
    THEN <<<<IF Len(times) < 1 THEN NaT ELSE times[1],
             IF Len(times) < 1 THEN NaT ELSE times[Len(times)]>>>>
    ELSE LET gi == gap_index(times)
         IN  [k \in 1..(Len(gi) - 1) |-> <<times[gi[k] + 1], times[gi[k + 1]]>>]

_extract_ranges(times) ==
    IF Len(times) < 1 THEN <<>>
    ELSE IF Len(times) < 2 THEN <<<<times[1], times[Len(times)]>>>>
    ELSE LET gi == gap_index(times)
         IN  [k \in 1..(Len(gi) - 1) |-> <<times[gi[k] + 1], times[gi[k + 1]]>>]

\* the for loop of push
RECURSIVE push_loop(_, _, _, _)
push_loop(rs, rgs, k, product) ==
    IF k > Len(rgs) THEN rs
    ELSE push_loop(_push_range(rs, rgs[k][1], rgs[k][2], product),
                   rgs, k + 1, product)

push(rs, product, times) == push_loop(rs, _extract_ranges(times), 1, product)

\* ---------------------------------------------------------- telemetry

\* a telemetry window: the times of the samples and their latitudes
Window(times, tm) == [times |-> times, lats |-> [i \in 1..Len(times) |-> tm[times[i]]]]

\* searchsorted(data, v, 'left'): the number of elements < v
searchsorted_left(data, v) == Cardinality({i \in 1..Len(data) : data[i] < v})

\* searchsorted(data, v, 'right'): the number of elements <= v
searchsorted_right(data, v) == Cardinality({i \in 1..Len(data) : data[i] <= v})

\* sorted_range with the default closed bounds and no margin, then the slice
sorted_range(data, start, end) ==
    PySlice(data, searchsorted_left(data, start), searchsorted_right(data, end))

\* the Timestamp part of load_data_from_product
load_times_from_product(fs, product, start, end) ==
    sorted_range(fs[product], start, end)

\* the Timestamp part of load_data_from_products
RECURSIVE load_times_from_products(_, _, _, _)
load_times_from_products(fs, products, start, end) ==
    IF products = <<>> THEN <<>>
    ELSE load_times_from_product(fs, Head(products), start, end)
             \o load_times_from_products(fs, Tail(products), start, end)

\* ------------------------------------------------------- ExtremaBase
\* ExtremaBase.__init__
NewExtrema == [times_list |-> <<>>, type_flags_list |-> <<>>,
               pass_flags_list |-> <<>>]

RECURSIVE concatenate(_)
concatenate(list) ==
    IF list = <<>> THEN <<>> ELSE Head(list) \o concatenate(Tail(list))

\* get_values: the series the extrema are searched in, held in thirds of a
\* degree so that the 1.0/3.0 of the low-pass filter is exact
eval_qdlatlon(lat) == lat + QD_DISPLACEMENT

get_values(label, lats) ==
    IF label = LABEL_GEO
    THEN [i \in 1..Len(lats) |-> 3 * lats[i]]
    ELSE [i \in 1..Len(lats) |-> 3 * eval_qdlatlon(lats[i])]

\* ExtremaBase._low_pass_filter: <<new_times, new_values>>
_low_pass_filter(times, values) ==
    <<PySlice(times, 1, -1),
      [i \in 1..Max(Len(values) - 2, 0) |->
          (values[i + 1] + values[i + 2] + values[i]) \div 3]>>

\* values[1:] - values[:-1] >= 0
non_descending(values) ==
    [i \in 1..Max(Len(values) - 1, 0) |-> values[i + 1] - values[i] >= 0]

\* mutant: every interior index is taken for an extremum
lookup_extrema_all(values) ==
    [j \in 1..Max(Len(values) - 2, 0) |-> j]

\* mutant: only the turns from descending to non-descending are found
lookup_extrema_minima(values) ==
    LET nd == non_descending(values)
        flips == [j \in 1..Max(Len(nd) - 1, 0) |-> nd[j + 1] /\ ~nd[j]]
        at == nonzero(flips)
    IN  [j \in 1..Len(at) |-> 1 + at[j]]

\* lookup_extrema: 0-based indices of the local extrema
lookup_extrema(values) ==
    LET nd == non_descending(values)
        flips == [j \in 1..Max(Len(nd) - 1, 0) |-> nd[j + 1] /= nd[j]]
        at == nonzero(flips)
    IN  [j \in 1..Len(at) |-> 1 + at[j]]

\* float64 between 2^40 and 2^41 (the milliseconds since 1970 of the years
\* 2004 to 2039) has 2^12 values per unit: a float time is held as the
\* number of these steps since the instant 0 of the model
FLOAT64_BITS == 12
FLOAT64_STEPS == 2 ^ FLOAT64_BITS

\* numpy's nan (division of zero by zero)
nan == NaT

\* the first bits binary digits of r/d, 0 <= r < d, and what remains of r
RECURSIVE binary_fraction(_, _, _)
binary_fraction(r, d, bits) ==
    IF bits = 0 THEN <<0, r>>
    ELSE LET upper == binary_fraction(r, d, bits - 1)
             r2 == 2 * upper[2]
         IN  IF r2 >= d THEN <<2 * upper[1] + 1, r2 - d>>
             ELSE <<2 * upper[1], r2>>

\* the float64 nearest to num/den (ties to even), in steps
float64_quotient(num, den) ==
    LET n == IF den < 0 THEN 0 - num ELSE num
        d == IF den < 0 THEN 0 - den ELSE den
        whole == n \div d
        digits == binary_fraction(n - whole * d, d, FLOAT64_BITS)
        up == \/ 2 * digits[2] > d
              \/ 2 * digits[2] = d /\ digits[1] % 2 = 1
    IN  whole * FLOAT64_STEPS + digits[1] + (IF up THEN 1 ELSE 0)

\* astype(datetime64[ms]) of a float time: truncation towards zero, NaT
\* for nan
astype_ms(f) ==
    IF f = nan THEN NaT
    ELSE IF f >= 0 THEN f \div FLOAT64_STEPS
    ELSE 0 - ((0 - f) \div FLOAT64_STEPS)

\* find_extrema at one 0-based index idx: the terms of
\* x0 + 0.5*(a1*a1b2 - a2*a2b1)/(a1b2 - a2b1) = x0 + num/den, the float64
\* computed, and its cast back to the dtype of times
find_extrema_terms(x, y, idx) ==
    LET x0 == x[idx]
        a1 == x[idx + 1] - x0
        a2 == x[idx + 2] - x0
        y0 == y[idx]
        b1 == y[idx + 1] - y0
        b2 == y[idx + 2] - y0
        a1b2 == a1 * b2
        a2b1 == a2 * b1
    IN  [x0 |-> x0, num |-> a1 * a1b2 - a2 * a2b1, den |-> 2 * (a1b2 - a2b1)]

find_extrema(x, y, idx) ==
    LET found == find_extrema_terms(x, y, idx)
    IN  IF found.den = 0 THEN nan
        ELSE found.x0 * FLOAT64_STEPS + float64_quotient(found.num, found.den)

find_extrema_at(x, y, idx) == astype_ms(find_extrema(x, y, idx))

\* mutant: the pass after a local minimum is ascending, whatever its value
find_inversion_points_by_kind(times, lats) ==
    LET index == lookup_extrema(lats)
    IN  <<[j \in 1..Len(index) |-> find_extrema_at(times, lats, index[j])],
          [j \in 1..Len(index) |-> non_descending(lats)[index[j] + 1]]>>

\* mutant: a candidate of value zero is taken as ascending
find_inversion_points_nonpositive(times, lats) ==
    LET index == lookup_extrema(lats)
    IN  <<[j \in 1..Len(index) |-> find_extrema_at(times, lats, index[j])],
          [j \in 1..Len(index) |-> lats[index[j] + 1] <= 0]>>

\* find_inversion_points: <<extrema_times, ascending_pass>>
find_inversion_points(times, lats) ==
    LET index == lookup_extrema(lats)
    IN  <<[j \in 1..Len(index) |-> find_extrema_at(times, lats, index[j])],
          [j \in 1..Len(index) |-> lats[index[j] + 1] < 0]>>

\* ExtremaBase._push
_push(a, times, type_flags, pass_flags) ==
    [times_list |-> Append(a.times_list, times),
     type_flags_list |-> Append(a.type_flags_list, type_flags),
     pass_flags_list |-> Append(a.pass_flags_list, pass_flags)]

int(b) == IF b THEN 1 ELSE 0

\* ExtremaBase._set_body
_set_body(a, times, values) ==
    LET found == find_inversion_points(times, values)
        extrema_times == found[1]
        ascending_pass == found[2]
    IN  _push(a, extrema_times,
              [j \in 1..Len(extrema_times) |-> FLAG_MIDDLE],
              [j \in 1..Len(extrema_times) |->
                  FLAGS_ORBIT_DIRECTION[int(ascending_pass[j]) + 1]])

\* set_start raises IndexError (values[1]) on a window of fewer than 2 samples
set_start_raises(w) == Len(w.times) < 2

\* mutant: a level head is taken as descending
set_start_strict(a, label, w) ==
    LET values == get_values(label, PySlice(w.lats, 0, 3))
        is_ascending == values[2] - values[1] > 0
        started == _push(a, <<w.times[1]>>, <<FLAG_START>>,
                         <<FLAGS_ORBIT_DIRECTION[int(is_ascending) + 1]>>)
    IN  _set_body(started, PySlice(w.times, 0, 3), values)

\* ExtremaBase.set_start
set_start(a, label, w) ==
    LET values == get_values(label, PySlice(w.lats, 0, 3))
        is_ascending == values[2] - values[1] >= 0
        started == _push(a, <<w.times[1]>>, <<FLAG_START>>,
                         <<FLAGS_ORBIT_DIRECTION[int(is_ascending) + 1]>>)
    IN  _set_body(started, PySlice(w.times, 0, 3), values)

\* mutant: the tail is processed but the block is not terminated
set_end_unterminated(a, label, w, margin) ==
    LET values == get_values(label, PySlice(w.lats, -3, Len(w.lats)))
    IN  _set_body(a, PySlice(w.times, -3, Len(w.times)), values)

\* mutant: the END point carries the direction of the last pass
set_end_directed(a, label, w, margin) ==
    LET values == get_values(label, PySlice(w.lats, -3, Len(w.lats)))
        tail == _set_body(a, PySlice(w.times, -3, Len(w.times)), values)
    IN  _push(tail, <<w.times[Len(w.times)] + margin>>, <<FLAG_END>>,
              <<FLAG_DESCENDING>>)

\* mutant: the END point is put at the last sample, without the margin
set_end_unmargined(a, label, w, margin) ==
    LET values == get_values(label, PySlice(w.lats, -3, Len(w.lats)))
        tail == _set_body(a, PySlice(w.times, -3, Len(w.times)), values)
    IN  _push(tail, <<w.times[Len(w.times)]>>, <<FLAG_END>>,
              <<FLAG_UNDEFINED>>)

\* ExtremaBase.set_end, margin = end_margin
set_end(a, label, w, margin) ==
    LET values == get_values(label, PySlice(w.lats, -3, Len(w.lats)))
        tail == _set_body(a, PySlice(w.times, -3, Len(w.times)), values)
    IN  _push(tail, <<w.times[Len(w.times)] + margin>>, <<FLAG_END>>,
              <<FLAG_UNDEFINED>>)

\* mutant: the body is searched without the low-pass filter
set_body_unfiltered(a, label, w) ==
    _set_body(a, w.times, get_values(label, w.lats))

\* ExtremaBase.set_body
set_body(a, label, w) ==
    LET filtered == _low_pass_filter(w.times, get_values(label, w.lats))
    IN  _set_body(a, filtered[1], filtered[2])

\* the properties times, type_flags, pass_flags
times_of(a) == concatenate(a.times_list)
type_flags_of(a) == concatenate(a.type_flags_list)
pass_flags_of(a) == concatenate(a.pass_flags_list)

\* datetime64 comparison a > b: False when either is NaT
time_gt(a, b) == a /= NaT /\ b /= NaT /\ a > b

\* mutant: verify without the comparison of neighbouring directions
verify_unalternating(a) ==
    IF a.times_list = <<>> THEN "ValueError"
    ELSE
    LET times == times_of(a)
        type_flags == type_flags_of(a)
        pass_flags == pass_flags_of(a)
        flags == SelectSeq(type_flags, LAMBDA f : f /= FLAG_MIDDLE)
        idx_start == nonzero([i \in 1..Len(type_flags) |-> type_flags[i] = FLAG_START])
        idx_stop == nonzero([i \in 1..Len(type_flags) |-> type_flags[i] = FLAG_END])
        block(n) == PySlice(pass_flags, idx_start[n], idx_stop[n])
    IN  IF ~(\A i \in 1..(Len(times) - 1) : time_gt(times[i + 1], times[i]))
        THEN "DataIntegrityError"
        ELSE IF \/ \E i \in 1..Len(flags) : i % 2 = 1 /\ flags[i] /= FLAG_START
                \/ \E i \in 1..Len(flags) : i % 2 = 0 /\ flags[i] /= FLAG_END
                \/ Len(flags) % 2 /= 0
        THEN "DataIntegrityError"
        ELSE IF \E j \in 1..Len(idx_stop) : pass_flags[idx_stop[j] + 1] /= FLAG_UNDEFINED
        THEN "DataIntegrityError"
        ELSE IF \E n \in 1..Min(Len(idx_start), Len(idx_stop)) :
                    \E i \in 1..Len(block(n)) : block(n)[i] = FLAG_UNDEFINED
        THEN "DataIntegrityError"
        ELSE "ok"

\* mutant: the directions are compared from the point after START on
verify_middles_only(a) ==
    IF a.times_list = <<>> THEN "ValueError"
    ELSE
    LET times == times_of(a)
        type_flags == type_flags_of(a)
        pass_flags == pass_flags_of(a)
        flags == SelectSeq(type_flags, LAMBDA f : f /= FLAG_MIDDLE)
        idx_start == nonzero([i \in 1..Len(type_flags) |-> type_flags[i] = FLAG_START])
        idx_stop == nonzero([i \in 1..Len(type_flags) |-> type_flags[i] = FLAG_END])
        block(n) == PySlice(pass_flags, idx_start[n] + 1, idx_stop[n])
    IN  IF ~(\A i \in 1..(Len(times) - 1) : time_gt(times[i + 1], times[i]))
        THEN "DataIntegrityError"
        ELSE IF \/ \E i \in 1..Len(flags) : i % 2 = 1 /\ flags[i] /= FLAG_START
                \/ \E i \in 1..Len(flags) : i % 2 = 0 /\ flags[i] /= FLAG_END
                \/ Len(flags) % 2 /= 0
        THEN "DataIntegrityError"
        ELSE IF \E j \in 1..Len(idx_stop) : pass_flags[idx_stop[j] + 1] /= FLAG_UNDEFINED
        THEN "DataIntegrityError"
        ELSE IF \E n \in 1..Min(Len(idx_start), Len(idx_stop)) :
                    \/ \E i \in 1..Len(block(n)) : block(n)[i] = FLAG_UNDEFINED
                    \/ \E i \in 1..(Len(block(n)) - 1) : block(n)[i + 1] = block(n)[i]
        THEN "DataIntegrityError"
        ELSE "ok"

\* ExtremaBase.verify: "ok", or the exception raised
verify(a) ==
    IF a.times_list = <<>> THEN "ValueError"  \* concatenate of no array
    ELSE
    LET times == times_of(a)
        type_flags == type_flags_of(a)
        pass_flags == pass_flags_of(a)
        flags == SelectSeq(type_flags, LAMBDA f : f /= FLAG_MIDDLE)
        idx_start == nonzero([i \in 1..Len(type_flags) |-> type_flags[i] = FLAG_START])
        idx_stop == nonzero([i \in 1..Len(type_flags) |-> type_flags[i] = FLAG_END])
        block(n) == PySlice(pass_flags, idx_start[n], idx_stop[n])
    IN  IF ~(\A i \in 1..(Len(times) - 1) : time_gt(times[i + 1], times[i]))
        THEN "DataIntegrityError"
        ELSE IF \/ \E i \in 1..Len(flags) : i % 2 = 1 /\ flags[i] /= FLAG_START
                \/ \E i \in 1..Len(flags) : i % 2 = 0 /\ flags[i] /= FLAG_END
                \/ Len(flags) % 2 /= 0
        THEN "DataIntegrityError"
        ELSE IF \E j \in 1..Len(idx_stop) : pass_flags[idx_stop[j] + 1] /= FLAG_UNDEFINED
        THEN "DataIntegrityError"
        ELSE IF \E n \in 1..Min(Len(idx_start), Len(idx_stop)) :
                    \/ \E i \in 1..Len(block(n)) : block(n)[i] = FLAG_UNDEFINED
                    \/ \E i \in 1..(Len(block(n)) - 1) : block(n)[i + 1] = block(n)[i]
        THEN "DataIntegrityError"
        ELSE "ok"

\* ---------------------------------------------------------------- Spec
\* The registry under register_products and select.
NoSelect == [query |-> <<>>, result |-> <<>>]

\* sys.argv of a complete command line: the executable, the manifest and
\* the two output files
Command == <<"orbit_directions_boundaries", "manifest", "output_geo", "output_mag">>

\* the command lines of main's run: complete, or cut short
Commands == {SubSeq(Command, 1, n) : n \in 1..Len(Command)}

\* exit_code while the process runs
NotExited == -1

\* parse_inputs: the three arguments, or the CommandError of an IndexError
parse_inputs(args) ==
    IF Len(args) < 4 THEN "CommandError"
    ELSE <<args[2], args[3], args[4]>>

\* previous_end = None, previous_product = None
None == 0

Init ==
    /\ files = <<>>
    /\ ranges = <<>>
    /\ selected = NoSelect
    /\ pc = "register"
    /\ telemetry = <<>>
    /\ acc = <<NewExtrema, NewExtrema>>
    /\ walked = 0
    /\ previous_end = None
    /\ previous_product = None
    /\ frame = 1
    /\ verified = <<"", "">>
    /\ output = <<"untouched", "untouched">>
    /\ error = ""
    /\ argv = Command
    /\ exit_code = NotExited
    /\ stderr = <<>>
    /\ calls = <<>>

\* one iteration of register_products: the next product of the manifest
\* (a select result is of the registry it was computed from)
Push(times) ==
    /\ Len(files) < NumProducts
    /\ files' = Append(files, times)
    /\ ranges' = push(ranges, Len(files) + 1, times)
    /\ selected' = NoSelect
    /\ UNCHANGED run_vars
    /\ UNCHANGED cli_vars
    /\ UNCHANGED calls

Select(t1, t2) ==
    /\ selected' = [query |-> <<t1, t2>>, result |-> select(ranges, t1, t2)]
    /\ UNCHANGED <<files, ranges>>
    /\ UNCHANGED run_vars
    /\ UNCHANGED cli_vars
    /\ UNCHANGED calls

Next ==
    \/ \E times \in TimeSets : Push(times)
    \/ \E t1 \in Grid : \E t2 \in Grid : t1 <= t2 /\ Select(t1, t2)

Spec == Init /\ [][Next]_vars

\* ------------------------------------------------------------ SpecMain
\* A run of main on a manifest of products.
Elements(s) == {s[i] : i \in 1..Len(s)}

InitMain ==
    /\ files = <<>>
    /\ ranges = <<>>
    /\ selected = NoSelect
    /\ pc = "start"
    /\ telemetry = <<>>
    /\ acc = <<NewExtrema, NewExtrema>>
    /\ walked = 0
    /\ previous_end = None
    /\ previous_product = None
    /\ frame = 1
    /\ verified = <<"", "">>
    /\ output = <<"untouched", "untouched">>
    /\ error = ""
    /\ argv \in Commands
    /\ exit_code = NotExited
    /\ stderr = <<>>
    /\ calls = <<>>

\* __main__: parse_inputs(sys.argv), then main or the except clause
ParseInputs ==
    /\ pc = "start"
    /\ IF parse_inputs(argv) = "CommandError"
       THEN pc' = "command_error" /\ error' = "CommandError"
       ELSE pc' = "register" /\ UNCHANGED error
    /\ UNCHANGED <<files, ranges, selected, telemetry, acc, walked,
                   previous_end, previous_product, frame, verified, output>>
    /\ UNCHANGED cli_vars
    /\ UNCHANGED calls

\* __main__, except CommandError: the error and the usage are printed and
\* the script runs to its end
HandleCommandError ==
    /\ pc = "command_error"
    /\ exit_code = NotExited
    /\ stderr' = stderr \o <<"ERROR: Not enough input arguments!", "USAGE">>
    /\ exit_code' = 0
    /\ UNCHANGED <<argv, files, ranges, selected, pc, telemetry, acc, walked,
                   previous_end, previous_product, frame, verified, output,
                   error>>
    /\ UNCHANGED calls

\* __main__: sys.exit(main(...)) with main returned, or the exception of
\* main left uncaught
Exit ==
    /\ pc \in {"done", "failed"}
    /\ exit_code = NotExited
    /\ IF pc = "done"
       THEN exit_code' = 0 /\ UNCHANGED stderr
       ELSE exit_code' = 1 /\ stderr' = stderr \o <<"Traceback", error>>
    /\ UNCHANGED <<argv, files, ranges, selected, pc, telemetry, acc, walked,
                   previous_end, previous_product, frame, verified, output,
                   error>>
    /\ UNCHANGED calls

\* register_products: one product of the manifest; process_ranges follows
\* the last
Register(times) ==
    /\ pc = "register"
    /\ Len(files) < Len(MainManifest)
    /\ files' = Append(files, times)
    /\ ranges' = push(ranges, MainManifest[Len(files) + 1], times)
    /\ pc' = IF Len(files) + 1 = Len(MainManifest) THEN "process" ELSE "register"
    /\ UNCHANGED <<selected, telemetry, acc, walked, previous_end,
                   previous_product, frame, verified, output, error>>
    /\ UNCHANGED cli_vars
    /\ UNCHANGED calls

\* mutant: the window of a contiguous range reaches back 2 samples
body_window_start_short(start) == start - 2 * SAMPLING

\* process_ranges: start - 4*sampling, where the window of a range
\* contiguous with the previous one begins
body_window_start(start) == start - 4 * SAMPLING

\* mutant: the walk takes gap_threshold to be half a sampling step
is_gap_half(start, end) == 2 * (start - end) > SAMPLING

\* mutant: a range one sampling step after the previous one opens a block
is_gap_stepped(start, end) == start - end >= SAMPLING

\* process_ranges: start - previous_end > product_registry.gap_threshold
is_gap(start, end) == start - end > GAP_THRESHOLD

\* the calls `for item in accumulators: item.op(*data)` issues while
\* walking the range k, up to the accumulator `last`
Issued(k, op, last, times) ==
    [f \in 1..last |-> [range |-> k, item |-> f, op |-> op, times |-> times]]

\* process_ranges: one iteration of the loop over product_registry.ranges;
\* the samples it loads for the first time get their latitudes here
ProcessRange ==
    /\ pc = "process"
    /\ walked < Len(ranges)
    /\ LET start == ranges[walked + 1][1]
           end == ranges[walked + 1][2]
           product == ranges[walked + 1][3]
           first == previous_product = None
           gap == ~first /\ is_gap(start, previous_end)
           end_times ==
               IF gap
               THEN load_times_from_product(files, previous_product,
                                            previous_end - SAMPLING, previous_end)
               ELSE <<>>
           data_times ==
               IF first \/ gap
               THEN load_times_from_product(files, product, start, end)
               ELSE load_times_from_products(files, <<previous_product, product>>,
                                             body_window_start(start), end)
           unread == (Elements(end_times) \cup Elements(data_times)) \ DOMAIN telemetry
       IN  \E read \in [unread -> Lats] :
             LET tm == read @@ telemetry
                 tail == Window(end_times, tm)
                 data == Window(data_times, tm)
                 ended ==
                     IF gap
                     THEN [f \in 1..2 |-> set_end(acc[f], f, tail, SAMPLING)]
                     ELSE acc
                 started ==
                     IF first \/ gap
                     THEN [f \in 1..2 |-> set_start(ended[f], f, data)]
                     ELSE ended
             IN  /\ IF (first \/ gap) /\ set_start_raises(data)
                    THEN /\ telemetry' = <<>>
                         /\ acc' = ended
                         /\ calls' = calls
                                \o (IF gap
                                    THEN Issued(walked + 1, "set_end", 2, end_times)
                                    ELSE <<>>)
                                \o Issued(walked + 1, "set_start", 1, data_times)
                         /\ pc' = "failed"
                         /\ error' = "IndexError"
                         /\ UNCHANGED <<walked, previous_end, previous_product>>
                    ELSE /\ telemetry' = tm
                         /\ acc' = [f \in 1..2 |->
                                       set_body(started[f], f, data)]
                         /\ calls' = calls
                                \o (IF gap
                                    THEN Issued(walked + 1, "set_end", 2, end_times)
                                    ELSE <<>>)
                                \o (IF first \/ gap
                                    THEN Issued(walked + 1, "set_start", 2, data_times)
                                    ELSE <<>>)
                                \o Issued(walked + 1, "set_body", 2, data_times)
                         /\ walked' = walked + 1
                         /\ previous_end' = end
                         /\ previous_product' = product
                         /\ UNCHANGED <<pc, error>>
    /\ UNCHANGED <<files, ranges, selected, frame, verified, output>>
    /\ UNCHANGED cli_vars

\* mutant: process_ranges returns without the set_end of the last block
ProcessEnd_unclosed ==
    /\ pc = "process"
    /\ walked = Len(ranges)
    /\ acc' = acc
    /\ calls' = calls
    /\ telemetry' = <<>>
    /\ pc' = "verify"
    /\ UNCHANGED <<files, ranges, selected, walked, previous_end,
                   previous_product, frame, verified, output, error>>
    /\ UNCHANGED cli_vars

\* process_ranges: after the loop, the set_end of the last block; the
\* loaded windows end with the call
ProcessEnd ==
    /\ pc = "process"
    /\ walked = Len(ranges)
    /\ IF previous_product /= None
       THEN LET data_times ==
                    load_times_from_product(files, previous_product,
                        previous_end - 2 * SAMPLING, previous_end)
                data == Window(data_times, telemetry)
            IN  /\ acc' = [f \in 1..2 |->
                              set_end(acc[f], f, data, SAMPLING)]
                /\ calls' = calls
                       \o Issued(Len(ranges) + 1, "set_end", 2, data_times)
       ELSE acc' = acc /\ calls' = calls
    /\ telemetry' = <<>>
    /\ pc' = "verify"
    /\ UNCHANGED <<files, ranges, selected, walked, previous_end,
                   previous_product, frame, verified, output, error>>
    /\ UNCHANGED cli_vars

\* mutant: the exception of verify() is swallowed
Verify_swallowed ==
    /\ pc = "verify"
    /\ verified' = [verified EXCEPT ![frame] = verify(acc[frame])]
    /\ pc' = "write"
    /\ UNCHANGED <<files, ranges, selected, telemetry, acc, walked,
                   previous_end, previous_product, frame, output, error>>
    /\ UNCHANGED cli_vars
    /\ UNCHANGED calls

\* main: odb.verify() of the frame
Verify ==
    /\ pc = "verify"
    /\ verified' = [verified EXCEPT ![frame] = verify(acc[frame])]
    /\ IF verify(acc[frame]) = "ok"
       THEN pc' = "write" /\ UNCHANGED error
       ELSE pc' = "failed" /\ error' = verify(acc[frame])
    /\ UNCHANGED <<files, ranges, selected, telemetry, acc, walked,
                   previous_end, previous_product, frame, output>>
    /\ UNCHANGED cli_vars
    /\ UNCHANGED calls

\* mutant: both output files are written once the first frame is verified
Write_all ==
    /\ pc = "write"
    /\ output' = [f \in 1..Len(acc) |-> "written"]
    /\ IF frame < Len(acc)
       THEN frame' = frame + 1 /\ pc' = "verify"
       ELSE frame' = frame /\ pc' = "done"
    /\ UNCHANGED <<files, ranges, selected, telemetry, acc, walked,
                   previous_end, previous_product, verified, error>>
    /\ UNCHANGED cli_vars
    /\ UNCHANGED calls

\* main: write_orbit_direction_boudaries of the frame, then the next frame
Write ==
    /\ pc = "write"
    /\ output' = [output EXCEPT ![frame] = "written"]
    /\ IF frame < Len(acc)
       THEN frame' = frame + 1 /\ pc' = "verify"
       ELSE frame' = frame /\ pc' = "done"
    /\ UNCHANGED <<files, ranges, selected, telemetry, acc, walked,
                   previous_end, previous_product, verified, error>>
    /\ UNCHANGED cli_vars
    /\ UNCHANGED calls

NextMain ==
    \/ ParseInputs
    \/ HandleCommandError
    \/ Exit
    \/ \E times \in MainTimeSets : Register(times)
    \/ ProcessRange
    \/ ProcessEnd
    \/ Verify
    \/ Write

SpecMain == InitMain /\ [][NextMain]_vars

\* ---------------------------------------------------------- SpecVerify
\* verify() on the sequences an accumulator can hold.
\* the points the methods push: set_start a START of either direction,
\* _set_body MIDDLE points of either direction, set_end an UNDEFINED END
PushedKinds ==
    {<<FLAG_START, FLAGS_ORBIT_DIRECTION[1]>>,
     <<FLAG_START, FLAGS_ORBIT_DIRECTION[2]>>,
     <<FLAG_MIDDLE, FLAGS_ORBIT_DIRECTION[1]>>,
     <<FLAG_MIDDLE, FLAGS_ORBIT_DIRECTION[2]>>,
     <<FLAG_END, FLAG_UNDEFINED>>}

\* the times of n points: one per sampling step, but for the point `at`,
\* which is NaT, equal to its predecessor, or earlier than it
Defects == {"NaT", "equal", "earlier"}

PushedTimes(n, at, defect) ==
    [i \in 1..n |->
        IF i /= at THEN i * SAMPLING
        ELSE IF defect = "NaT" THEN NaT
        ELSE IF defect = "equal" THEN (i - 1) * SAMPLING
        ELSE (i - 2) * SAMPLING]

\* the accumulator after one _push per point
Pushed(times, kinds) ==
    [times_list |-> [i \in 1..Len(kinds) |-> <<times[i]>>],
     type_flags_list |-> [i \in 1..Len(kinds) |-> <<kinds[i][1]>>],
     pass_flags_list |-> [i \in 1..Len(kinds) |-> <<kinds[i][2]>>]]

InitVerify ==
    /\ files = <<>>
    /\ ranges = <<>>
    /\ selected = NoSelect
    /\ pc = "verify"
    /\ telemetry = <<>>
    /\ \E n \in 0..MaxPoints : \E kinds \in [1..n -> PushedKinds] :
           \E at \in 0..n : \E defect \in Defects :
               acc = <<Pushed(PushedTimes(n, at, defect), kinds), NewExtrema>>
    /\ walked = 0
    /\ previous_end = None
    /\ previous_product = None
    /\ frame = 1
    /\ verified = <<"", "">>
    /\ output = <<"untouched", "untouched">>
    /\ error = ""
    /\ argv = Command
    /\ exit_code = NotExited
    /\ stderr = <<>>
    /\ calls = <<>>

SpecVerify == InitVerify /\ [][Verify]_vars

\* ----------------------------------------------------------- SpecBlock
\* One block of one product: set_start on the first 3 samples, set_body on
\* the whole series, set_end on the last 3 samples.
\* the latitude series of scenario A, sampled at 0 s, 1 s, ..., 7 s
ScenarioA == <<10, 30, 20, -10, -30, -15, 5, 25>>

\* the series a block is run on: the windows of at least 3 samples of
\* scenario A, as they are, mirrored or doubled
Scales == {-1, 1, 2}

BlockSeries ==
    {[i \in 1..(w[2] - w[1] + 1) |-> w[3] * ScenarioA[w[1] + i - 1]] :
        w \in {v \in (1..Len(ScenarioA)) \X (1..Len(ScenarioA)) \X Scales :
                  v[2] >= v[1] + 2}}

BlockTimes(n) == [i \in 1..n |-> (i - 1) * SAMPLING]

InitBlock ==
    /\ \E series \in BlockSeries :
          /\ files = <<BlockTimes(Len(series))>>
          /\ telemetry = [t \in Elements(BlockTimes(Len(series))) |->
                             series[t \div SAMPLING + 1]]
    /\ ranges = <<>>
    /\ selected = NoSelect
    /\ pc = "set_start"
    /\ acc = <<NewExtrema, NewExtrema>>
    /\ walked = 0
    /\ previous_end = None
    /\ previous_product = None
    /\ frame = 1
    /\ verified = <<"", "">>
    /\ output = <<"untouched", "untouched">>
    /\ error = ""
    /\ argv = Command
    /\ exit_code = NotExited
    /\ stderr = <<>>
    /\ calls = <<>>

BlockStart ==
    /\ pc = "set_start"
    /\ acc' = [f \in 1..2 |->
                  set_start(acc[f], f, Window(PySlice(files[1], 0, 3), telemetry))]
    /\ pc' = "set_body"
    /\ UNCHANGED <<files, ranges, selected, telemetry, walked, previous_end,
                   previous_product, frame, verified, output, error>>
    /\ UNCHANGED cli_vars
    /\ UNCHANGED calls

BlockBody ==
    /\ pc = "set_body"
    /\ acc' = [f \in 1..2 |-> set_body(acc[f], f, Window(files[1], telemetry))]
    /\ pc' = "set_end"
    /\ UNCHANGED <<files, ranges, selected, telemetry, walked, previous_end,
                   previous_product, frame, verified, output, error>>
    /\ UNCHANGED cli_vars
    /\ UNCHANGED calls

BlockEnd ==
    /\ pc = "set_end"
    /\ acc' = [f \in 1..2 |->
                  set_end(acc[f], f,
                          Window(PySlice(files[1], -3, Len(files[1])), telemetry),
                          SAMPLING)]
    /\ pc' = "ended"
    /\ UNCHANGED <<files, ranges, selected, telemetry, walked, previous_end,
                   previous_product, frame, verified, output, error>>
    /\ UNCHANGED cli_vars
    /\ UNCHANGED calls

NextBlock ==
    \/ BlockStart
    \/ BlockBody
    \/ BlockEnd

SpecBlock == InitBlock /\ [][NextBlock]_vars

\* ------------------------------------------------------------ SpecPair
\* process_ranges on the registry of two uniformly sampled products of at
\* least 3 samples each, the second beginning one sampling step after
\* the first ends, or after a gap of PairGap steps.
PairGap == 3

\* the numbers of samples of the second product
SecondLens == {3, 4}

\* the two products: m samples, then n samples d steps after the m-th
PairOf(m, n, d) ==
    <<[i \in 1..m |-> (i - 1) * SAMPLING],
      [i \in 1..n |-> (m - 1 + d + i - 1) * SAMPLING]>>

PairFiles ==
    {PairOf(m, n, 1) : m \in 3..MaxRangeLen, n \in SecondLens}
        \cup {PairOf(m, 3, PairGap) : m \in 3..MaxRangeLen}

InitPair ==
    /\ files \in PairFiles
    /\ ranges = push(push(<<>>, 1, files[1]), 2, files[2])
    /\ selected = NoSelect
    /\ pc = "process"
    /\ telemetry = <<>>
    /\ acc = <<NewExtrema, NewExtrema>>
    /\ walked = 0
    /\ previous_end = None
    /\ previous_product = None
    /\ frame = 1
    /\ verified = <<"", "">>
    /\ output = <<"untouched", "untouched">>
    /\ error = ""
    /\ argv = Command
    /\ exit_code = NotExited
    /\ stderr = <<>>
    /\ calls = <<>>

NextPair ==
    \/ ProcessRange
    \/ ProcessEnd

SpecPair == InitPair /\ [][NextPair]_vars

\* ---------------------------------------------------------- SpecWindow
\* One call of set_start, set_body, set_end or _set_body on fresh
\* accumulators, on a telemetry window of any strictly increasing sample
\* times and any latitudes.
WindowGrid == {k * SAMPLING : k \in 0..MaxWindowSample}

WindowTimeSets == {SetToSortedSeq(S) : S \in SUBSET WindowGrid}

\* the latitudes of a window: both signs, and room for a local maximum
\* below zero
WindowLats == {-2, -1, 0, 1}

\* set_end raises IndexError (times[-1]) on a window of no sample
set_end_raises(w) == Len(w.times) < 1

InitWindow ==
    /\ \E times \in WindowTimeSets :
          /\ files = <<times>>
          /\ telemetry \in [Elements(times) -> WindowLats]
    /\ ranges = <<>>
    /\ selected = NoSelect
    /\ pc = "window"
    /\ acc = <<NewExtrema, NewExtrema>>
    /\ walked = 0
    /\ previous_end = None
    /\ previous_product = None
    /\ frame = 1
    /\ verified = <<"", "">>
    /\ output = <<"untouched", "untouched">>
    /\ error = ""
    /\ argv = Command
    /\ exit_code = NotExited
    /\ stderr = <<>>
    /\ calls = <<>>

WindowStart ==
    /\ pc = "window"
    /\ LET w == Window(files[1], telemetry)
       IN  IF set_start_raises(w)
           THEN /\ error' = "IndexError"
                /\ UNCHANGED acc
           ELSE /\ acc' = [f \in 1..2 |-> set_start(acc[f], f, w)]
                /\ UNCHANGED error
    /\ pc' = "set_start"
    /\ UNCHANGED <<files, ranges, selected, telemetry, walked, previous_end,
                   previous_product, frame, verified, output>>
    /\ UNCHANGED cli_vars
    /\ UNCHANGED calls

WindowBody ==
    /\ pc = "window"
    /\ acc' = [f \in 1..2 |-> set_body(acc[f], f, Window(files[1], telemetry))]
    /\ pc' = "set_body"
    /\ UNCHANGED <<files, ranges, selected, telemetry, walked, previous_end,
                   previous_product, frame, verified, output, error>>
    /\ UNCHANGED cli_vars
    /\ UNCHANGED calls

WindowEnd ==
    /\ pc = "window"
    /\ LET w == Window(files[1], telemetry)
       IN  IF set_end_raises(w)
           THEN /\ error' = "IndexError"
                /\ UNCHANGED acc
           ELSE /\ acc' = [f \in 1..2 |-> set_end(acc[f], f, w, SAMPLING)]
                /\ UNCHANGED error
    /\ pc' = "set_end"
    /\ UNCHANGED <<files, ranges, selected, telemetry, walked, previous_end,
                   previous_product, frame, verified, output>>
    /\ UNCHANGED cli_vars
    /\ UNCHANGED calls

\* _set_body on the whole window, unfiltered
WindowSetBody ==
    /\ pc = "window"
    /\ acc' = [f \in 1..2 |->
                  _set_body(acc[f], files[1],
                            get_values(f, Window(files[1], telemetry).lats))]
    /\ pc' = "_set_body"
    /\ UNCHANGED <<files, ranges, selected, telemetry, walked, previous_end,
                   previous_product, frame, verified, output, error>>
    /\ UNCHANGED cli_vars
    /\ UNCHANGED calls

NextWindow ==
    \/ WindowStart
    \/ WindowBody
    \/ WindowEnd
    \/ WindowSetBody

SpecWindow == InitWindow /\ [][NextWindow]_vars

\* ------------------------------------------------------------ SpecFine
\* The calls of SpecWindow on evenly spaced windows whose latitudes differ
\* by very little next to differences ten thousand times larger, so that
\* the rounding of the float64 times shows.
\* the period of the samples, in milliseconds
FinePeriod == 1

\* the large latitude; the small one is 1
FineScale == 10000

FineLats == {0 - FineScale, 0, 1, FineScale}

FineTimes(n) == [i \in 1..n |-> (i - 1) * FinePeriod]

InitFine ==
    /\ \E n \in 0..MaxFineLen :
          /\ files = <<FineTimes(n)>>
          /\ telemetry \in [Elements(FineTimes(n)) -> FineLats]
    /\ ranges = <<>>
    /\ selected = NoSelect
    /\ pc = "window"
    /\ acc = <<NewExtrema, NewExtrema>>
    /\ walked = 0
    /\ previous_end = None
    /\ previous_product = None
    /\ frame = 1
    /\ verified = <<"", "">>
    /\ output = <<"untouched", "untouched">>
    /\ error = ""
    /\ argv = Command
    /\ exit_code = NotExited
    /\ stderr = <<>>
    /\ calls = <<>>

SpecFine == InitFine /\ [][NextWindow]_vars

\* ------------------------------------------------------ registry claims
Overlap(r1, r2) == r1[1] <= r2[2] /\ r2[1] <= r1[2]

\* C1: after every push the stored ranges are pairwise non-overlapping.
C1_NonOverlapping ==
    \A i \in 1..Len(ranges) : \A j \in 1..Len(ranges) :
        i /= j => ~Overlap(ranges[i], ranges[j])

\* the ranges the push of the step inserts
PushedRanges(times, product) ==
    {<<r[1], r[2], product>> : r \in Elements(_extract_ranges(times))}

\* C2: a push of a range B removes every previously stored range A that
\* intersects B from the registry (last write wins).
C2_LastWriteWins ==
    [][Len(files') = Len(files) + 1 =>
        \A A \in Elements(ranges) :
            \A B \in PushedRanges(files'[Len(files')], Len(files')) :
                Overlap(A, B) => A \notin Elements(ranges')]_vars

\* C3: select(t1, t2) returns exactly the stored ranges r with
\* r.start <= t2 and r.end >= t1, in the registry's order.
C3_SelectExact ==
    selected.query /= <<>> =>
        selected.result =
            SelectSeq(ranges, LAMBDA r :
                r[1] <= selected.query[2] /\ r[2] >= selected.query[1])

\* C4: after every push the stored ranges are sorted ascending by start.
C4_SortedByStart ==
    \A i \in 1..(Len(ranges) - 1) : ranges[i][1] <= ranges[i + 1][1]

\* C4 witness: the second product was inserted before a range of the first
C4_Witness ==
    /\ Len(files) = 2
    /\ Len(ranges) >= 2
    /\ ranges[1][3] = 2
    /\ ranges[Len(ranges)][3] = 1

\* ---------------------------------------------------- pipeline claims
\* process_ranges has returned its accumulators
Returned ==
    \/ pc \in {"verify", "write", "done"}
    \/ pc = "failed" /\ error /= "IndexError"

Frames == {LABEL_GEO, LABEL_MAG}

\* the positions of the points of one boundary type
Positions(a, type) ==
    {i \in 1..Len(type_flags_of(a)) : type_flags_of(a)[i] = type}

\* C5: the timestamps an accumulator driven by process_ranges accumulates
\* are strictly increasing.
C5_StrictlyIncreasing ==
    Returned =>
        \A f \in Frames : \A i \in 1..(Len(times_of(acc[f])) - 1) :
            /\ times_of(acc[f])[i] /= NaT
            /\ times_of(acc[f])[i + 1] /= NaT
            /\ times_of(acc[f])[i] < times_of(acc[f])[i + 1]

\* C6: in the output of one block, two consecutive MIDDLE points have
\* different orbit directions.
C6_MiddlesAlternate ==
    Returned =>
        \A f \in Frames : \A i \in 1..(Len(type_flags_of(acc[f])) - 1) :
            (/\ type_flags_of(acc[f])[i] = FLAG_MIDDLE
             /\ type_flags_of(acc[f])[i + 1] = FLAG_MIDDLE)
            => pass_flags_of(acc[f])[i] /= pass_flags_of(acc[f])[i + 1]

\* the START and END markers of a sequence of boundary types pair up:
\* first a START, then alternately END and START, last an END
MarkersPaired(types) ==
    LET marks == SelectSeq(types, LAMBDA t : t /= FLAG_MIDDLE)
    IN  /\ Len(marks) > 0
        /\ Len(marks) % 2 = 0
        /\ \A i \in 1..Len(marks) :
              marks[i] = (IF i % 2 = 1 THEN FLAG_START ELSE FLAG_END)

\* every MIDDLE point has a START before it with no END in between, and
\* an END after it with no START in between
MiddlesInsideBlocks(types) ==
    \A i \in 1..Len(types) :
        types[i] = FLAG_MIDDLE =>
            /\ \E s \in 1..(i - 1) :
                  /\ types[s] = FLAG_START
                  /\ \A j \in (s + 1)..(i - 1) : types[j] = FLAG_MIDDLE
            /\ \E e \in (i + 1)..Len(types) :
                  /\ types[e] = FLAG_END
                  /\ \A j \in (i + 1)..(e - 1) : types[j] = FLAG_MIDDLE

\* C7: over a non-empty registry, the output of process_ranges has as many
\* START as END points, its markers alternate START, END from a START to
\* an END, and every MIDDLE lies between a START and its END.
C7_BlocksPaired ==
    (Returned /\ Len(ranges) > 0) =>
        \A f \in Frames :
            /\ Cardinality(Positions(acc[f], FLAG_START))
                   = Cardinality(Positions(acc[f], FLAG_END))
            /\ MarkersPaired(type_flags_of(acc[f]))
            /\ MiddlesInsideBlocks(type_flags_of(acc[f]))

\* C7 witness: a returned run over two products whose geographic output
\* holds a MIDDLE point between a START and its END
C7_Witness ==
    /\ Returned
    /\ Len(ranges) = 2
    /\ \E i \in Positions(acc[LABEL_GEO], FLAG_MIDDLE) :
           /\ \E b \in Positions(acc[LABEL_GEO], FLAG_START) : b < i
           /\ \E e \in Positions(acc[LABEL_GEO], FLAG_END) : i < e

\* C8: a point has orbit direction UNDEFINED iff its boundary type is END.
C8_UndefinedIffEnd ==
    \A f \in Frames : \A i \in 1..Len(type_flags_of(acc[f])) :
        pass_flags_of(acc[f])[i] = FLAG_UNDEFINED
            <=> type_flags_of(acc[f])[i] = FLAG_END

\* C8 witness: the quasi-dipole accumulator holds points of all three
\* boundary types and of both orbit directions
C8_Witness ==
    /\ Positions(acc[LABEL_MAG], FLAG_START) /= {}
    /\ Positions(acc[LABEL_MAG], FLAG_MIDDLE) /= {}
    /\ Positions(acc[LABEL_MAG], FLAG_END) /= {}
    /\ \E i, j \in 1..Len(pass_flags_of(acc[LABEL_MAG])) :
           /\ pass_flags_of(acc[LABEL_MAG])[i] = FLAG_ASCENDING
           /\ pass_flags_of(acc[LABEL_MAG])[j] = FLAG_DESCENDING

\* the data-model invariants of a point sequence, one by one
StrictlyIncreasing(times) ==
    \A i \in 1..(Len(times) - 1) :
        times[i] /= NaT /\ times[i + 1] /= NaT /\ times[i] < times[i + 1]

MarkersAlternate(types) ==
    LET marks == SelectSeq(types, LAMBDA t : t /= FLAG_MIDDLE)
    IN  /\ Len(marks) % 2 = 0
        /\ \A i \in 1..Len(marks) :
              marks[i] = (IF i % 2 = 1 THEN FLAG_START ELSE FLAG_END)

UndefinedIffEnd(types, passes) ==
    \A i \in 1..Len(types) :
        passes[i] = FLAG_UNDEFINED <=> types[i] = FLAG_END

\* point i lies after a START with no END in between
InBlock(types, i) ==
    \E s \in 1..(i - 1) :
        types[s] = FLAG_START /\ \A j \in (s + 1)..i : types[j] /= FLAG_END

MiddlesAlternate(types, passes) ==
    \A i \in 1..(Len(types) - 1) :
        (/\ types[i] = FLAG_MIDDLE
         /\ types[i + 1] = FLAG_MIDDLE
         /\ InBlock(types, i))
        => passes[i] /= passes[i + 1]

DataModelInvariants(a) ==
    /\ StrictlyIncreasing(times_of(a))
    /\ MarkersAlternate(type_flags_of(a))
    /\ UndefinedIffEnd(type_flags_of(a), pass_flags_of(a))
    /\ MiddlesAlternate(type_flags_of(a), pass_flags_of(a))

\* C9: verify() raises DataIntegrityError for every accumulated sequence
\* that violates a data-model invariant: strictly increasing timestamps,
\* START/END markers alternating and pairing, UNDEFINED iff END, MIDDLE
\* directions alternating between a START and the following END.
C9_VerifyRaises ==
    \A f \in Frames :
        (verified[f] /= ""
            /\ ~DataModelInvariants(acc[f]))
        => verified[f] = "DataIntegrityError"

\* C9 witness: verify() raised for a sequence whose only violation is two
\* consecutive MIDDLE points of one direction inside a block
C9_Witness ==
    /\ verified[LABEL_GEO] = "DataIntegrityError"
    /\ StrictlyIncreasing(times_of(acc[LABEL_GEO]))
    /\ MarkersAlternate(type_flags_of(acc[LABEL_GEO]))
    /\ ~MiddlesAlternate(type_flags_of(acc[LABEL_GEO]),
                         pass_flags_of(acc[LABEL_GEO]))

\* a START point is directly followed by a MIDDLE point of its direction
StartEqualsFirstMiddle(types, passes) ==
    \E i \in 1..(Len(types) - 1) :
        /\ types[i] = FLAG_START
        /\ types[i + 1] = FLAG_MIDDLE
        /\ passes[i] = passes[i + 1]

\* C29: verify() applies the alternation check to the START point too: it
\* raises DataIntegrityError when the orbit_direction seeded on a START
\* point equals the orbit_direction of the first MIDDLE point of that
\* block, even if all MIDDLE points of the block alternate among themselves.
C29_StartChecked ==
    \A f \in Frames :
        (verified[f] /= ""
            /\ StartEqualsFirstMiddle(type_flags_of(acc[f]), pass_flags_of(acc[f])))
        => verified[f] = "DataIntegrityError"

\* C29 witness: verify() raised for a block whose MIDDLE points alternate
\* among themselves and whose only flaw is the direction of its START point
C29_Witness ==
    /\ verified[LABEL_GEO] = "DataIntegrityError"
    /\ StrictlyIncreasing(times_of(acc[LABEL_GEO]))
    /\ type_flags_of(acc[LABEL_GEO])
           = <<FLAG_START, FLAG_MIDDLE, FLAG_MIDDLE, FLAG_END>>
    /\ pass_flags_of(acc[LABEL_GEO])
           = <<FLAG_ASCENDING, FLAG_ASCENDING, FLAG_DESCENDING, FLAG_UNDEFINED>>

\* C10: the output of a frame is written only after verify() returned
\* without error for it; the output of a frame whose verify() raised is
\* left untouched.
C10_WriteAfterVerify ==
    \A f \in Frames :
        /\ output[f] = "written" => verified[f] = "ok"
        /\ verified[f] \notin {"", "ok"} => output[f] = "untouched"

\* C10 witness: the geographic frame was written, then verify() raised
\* for the quasi-dipole frame
C10_Witness ==
    /\ output[LABEL_GEO] = "written"
    /\ verified[LABEL_MAG] = "DataIntegrityError"
    /\ pc = "failed"

\* C11 as stated: an output file is written only after verify() returned
\* for both accumulators, so no run that fails in verify() has written one.
C11_VerifyBothBeforeWrite ==
    \A f \in Frames :
        output[f] = "written" => \A g \in Frames : verified[g] = "ok"

\* C11: verify() of a frame precedes the Writer of that frame, the
\* geographic frame first: when the geographic verify() raises nothing was
\* verified or written for the quasi-dipole frame and no file is written;
\* when the quasi-dipole verify() raises the geographic file is written
\* and the quasi-dipole file is not.
C11_VerifyThenWriteByFrame ==
    /\ \A f \in Frames : output[f] = "written" => verified[f] = "ok"
    /\ verified[LABEL_GEO] \notin {"", "ok"} =>
           /\ verified[LABEL_MAG] = ""
           /\ \A f \in Frames : output[f] = "untouched"
    /\ verified[LABEL_MAG] /= "" =>
           /\ verified[LABEL_GEO] = "ok"
           /\ output[LABEL_GEO] = "written"
    /\ verified[LABEL_MAG] \notin {"", "ok"} =>
           output[LABEL_MAG] = "untouched"

\* C11 witness: the geographic verify() raised DataIntegrityError
C11_Witness ==
    /\ verified[LABEL_GEO] = "DataIntegrityError"
    /\ pc = "failed"
    /\ Len(ranges) > 0

\* C12: the push of a product with no sample leaves the registry's ranges
\* unchanged and raises no error, and the products after it are
\* registered as they would be without it.
C12_EmptyProductSkipped ==
    [][(Len(files') = Len(files) + 1 /\ files'[Len(files')] = <<>>) =>
          /\ ranges' = ranges
          /\ error' = ""
          /\ \A times \in TimeSets :
                push(ranges', Len(files') + 1, times)
                    = push(ranges, Len(files') + 1, times)]_vars

\* C12 witness: an empty product was pushed, and the product after it
\* is registered
C12_Witness ==
    /\ Len(files) = 2
    /\ files[1] = <<>>
    /\ Len(ranges) = 2
    /\ \A i \in 1..Len(ranges) : ranges[i][3] = 2

\* ------------------------------------------------------- block claims
\* the block run is the one of scenario A
IsScenarioA ==
    /\ files = <<BlockTimes(Len(ScenarioA))>>
    /\ \A i \in 1..Len(ScenarioA) : telemetry[(i - 1) * SAMPLING] = ScenarioA[i]

\* t is nearer to the sample instant u than to any other
Near(t, u) == t /= NaT /\ 2 * (t - u) < SAMPLING /\ 2 * (u - t) < SAMPLING

\* the sequence of the positions of the MIDDLE points, ascending
MiddlePositions(a) == SetToSortedSeq(Positions(a, FLAG_MIDDLE))

\* C13: scenario A, run as one block on the geographic accumulator, yields
\* exactly two MIDDLE points: one near t = 1 s with direction DESCENDING
\* and one near t = 4 s with direction ASCENDING.
C13_ScenarioA ==
    (pc = "ended" /\ IsScenarioA) =>
        LET a == acc[LABEL_GEO]
            mid == MiddlePositions(a)
        IN  /\ Len(mid) = 2
            /\ Near(times_of(a)[mid[1]], 1 * SAMPLING)
            /\ pass_flags_of(a)[mid[1]] = FLAG_DESCENDING
            /\ Near(times_of(a)[mid[2]], 4 * SAMPLING)
            /\ pass_flags_of(a)[mid[2]] = FLAG_ASCENDING

\* C13 witness: the block of scenario A has ended with its START, MIDDLE
\* and END points
C13_Witness ==
    /\ pc = "ended"
    /\ IsScenarioA
    /\ type_flags_of(acc[LABEL_GEO])
           = <<FLAG_START, FLAG_MIDDLE, FLAG_MIDDLE, FLAG_END>>
    /\ times_of(acc[LABEL_GEO]) = <<0, 1166, 4200, 8000>>

\* ------------------------------------------------------- walk claims
\* the positions i of the registry ranges P = ranges[i], R = ranges[i + 1]
\* that a gap separates
Gaps ==
    {i \in 1..(Len(ranges) - 1) :
        ranges[i + 1][1] - ranges[i][2] > GAP_THRESHOLD}

\* C14: for consecutive registry ranges P, R with R.start - P.end >
\* gap_threshold, the output of each accumulator holds an END point at
\* P.end + margin immediately followed by a START point at R.start, and
\* no MIDDLE point with a timestamp between P.end and R.start.
C14_GapClosesBlock ==
    Returned =>
        \A i \in Gaps : \A f \in Frames :
            LET times == times_of(acc[f])
                types == type_flags_of(acc[f])
            IN  /\ \E k \in 1..(Len(types) - 1) :
                      /\ types[k] = FLAG_END
                      /\ times[k] = ranges[i][2] + SAMPLING
                      /\ types[k + 1] = FLAG_START
                      /\ times[k + 1] = ranges[i + 1][1]
                /\ \A k \in 1..Len(types) :
                      types[k] = FLAG_MIDDLE =>
                          ~(ranges[i][2] < times[k] /\ times[k] < ranges[i + 1][1])

\* C14 witness: a returned run over two ranges a gap separates
C14_Witness ==
    /\ Returned
    /\ Gaps /= {}
    /\ type_flags_of(acc[LABEL_MAG])
           = <<FLAG_START, FLAG_END, FLAG_START, FLAG_END>>

\* -------------------------------------------------------- entry claims
\* C15: invoked with fewer than three arguments, the process reports the
\* error with a usage message and terminates with exit code 1.
C15_CommandErrorExitsOne ==
    (Len(argv) < 4 /\ exit_code /= NotExited) =>
        /\ error = "CommandError"
        /\ \E i \in 1..Len(stderr) : stderr[i] = "USAGE"
        /\ exit_code = 1

\* ------------------------------------------------- lifecycle claims
\* the calls issued to the accumulator f while walking the range k
CallsOf(k, f) == SelectSeq(calls, LAMBDA c : c.range = k /\ c.item = f)

OpsOf(cs) == [i \in 1..Len(cs) |-> cs[i].op]

Samples(product) == Elements(files[product])

AllCallsOf(f) == SelectSeq(calls, LAMBDA c : c.item = f)

\* the state of an accumulator's block after the calls ops[i..]: "none"
\* with no block open, "started" after set_start, "body" after a set_body,
\* "broken" once a call came out of order
RECURSIVE BlockState(_, _, _)
BlockState(ops, i, st) ==
    IF i > Len(ops) THEN st
    ELSE BlockState(ops, i + 1,
            IF ops[i] = "set_start" /\ st = "none" THEN "started"
            ELSE IF ops[i] = "set_body" /\ st \in {"started", "body"} THEN "body"
            ELSE IF ops[i] = "set_end" /\ st = "body" THEN "none"
            ELSE "broken")

\* C17: over a non-empty registry, the calls process_ranges issues to an
\* accumulator are blocks set_start, set_body (one or more), set_end:
\* no set_start while a block is open, no set_body or set_end while none
\* is open, and no block open when process_ranges returns.
C17_CallsInBlocks ==
    \A f \in Frames :
        LET ops == OpsOf(AllCallsOf(f))
        IN  /\ BlockState(ops, 1, "none") /= "broken"
            /\ (Returned /\ Len(ranges) > 0) =>
                   /\ ops /= <<>>
                   /\ BlockState(ops, 1, "none") = "none"

\* C17 witness: process_ranges returned after two blocks, one of them of
\* two ranges
C17_Witness ==
    /\ Returned
    /\ OpsOf(AllCallsOf(LABEL_MAG))
           = <<"set_start", "set_body", "set_end",
               "set_start", "set_body", "set_body", "set_end">>

\* ---------------------------------------------------- window claims
\* the times of the series a call searches for extrema: the head of
\* set_start, the tail of set_end, the filtered window of set_body
SearchedTimes(c) ==
    IF c.op = "set_start" THEN PySlice(c.times, 0, 3)
    ELSE IF c.op = "set_end" THEN PySlice(c.times, -3, Len(c.times))
    ELSE _low_pass_filter(c.times, c.times)[1]

\* the extremum-candidate positions of a call: the interior of the series
CandidateTimes(c) == PySlice(SearchedTimes(c), 1, -1)

\* how many times the calls cs evaluate the instant t as a candidate
RECURSIVE Evaluations(_, _)
Evaluations(cs, t) ==
    IF cs = <<>> THEN 0
    ELSE Cardinality({i \in 1..Len(CandidateTimes(Head(cs))) :
                         CandidateTimes(Head(cs))[i] = t})
             + Evaluations(Tail(cs), t)

\* the registry holds two contiguous ranges P, R of one block
OneBlockPair ==
    /\ Len(ranges) = 2
    /\ ranges[2][1] = ranges[1][2] + SAMPLING

\* C18: for a block of two ranges P, R of at least 3 uniformly spaced
\* samples each, R.start = P.end + sampling, every sample of the block but
\* the first and the last is evaluated as an extremum candidate exactly
\* once over set_start(P), set_body(P), set_body(window of R), set_end.
C18_EachSampleOnce ==
    (pc = "verify" /\ OneBlockPair) =>
        \A f \in Frames :
            /\ OpsOf(AllCallsOf(f))
                   = <<"set_start", "set_body", "set_body", "set_end">>
            /\ \A t \in (Samples(1) \cup Samples(2))
                        \ {ranges[1][1], ranges[2][2]} :
                   Evaluations(AllCallsOf(f), t) = 1

\* C18 witness: a block of a range of 5 samples and a range of 4 has been
\* walked to its end
C18_Witness ==
    /\ pc = "verify"
    /\ OneBlockPair
    /\ Len(files[1]) = 5
    /\ Len(files[2]) = 4

\* C19: every set_end call process_ranges issues, at a gap and after the
\* last range, receives a window holding the last 3 samples of its block
\* (uniform sampling, blocks of at least 3 samples), so that the
\* penultimate sample of the block is evaluated as an extremum candidate.
C19_SetEndSeesThreeSamples ==
    \A i \in 1..Len(calls) :
        calls[i].op = "set_end" =>
            LET times == calls[i].times
                last == times[Len(times)]
            IN  /\ PySlice(times, -3, Len(times))
                       = <<last - 2 * SAMPLING, last - SAMPLING, last>>
                /\ CandidateTimes(calls[i]) = <<last - SAMPLING>>

\* ------------------------------------------------- sub-range claims
\* the maximal runs of the sorted timestamps t: the index pairs <<a, b>>
\* with every spacing inside a..b at most gap_threshold and the spacing
\* before a and after b, where there is one, above it
MaximalRuns(t) ==
    {w \in (1..Len(t)) \X (1..Len(t)) :
        /\ w[1] <= w[2]
        /\ \A i \in w[1]..(w[2] - 1) : t[i + 1] - t[i] <= GAP_THRESHOLD
        /\ w[1] > 1 => t[w[1]] - t[w[1] - 1] > GAP_THRESHOLD
        /\ w[2] < Len(t) => t[w[2] + 1] - t[w[2]] > GAP_THRESHOLD}

\* C20: the push of a product with sorted timestamps t[0..n-1], n >= 1,
\* registers the sub-ranges (t[a], t[b]) of the maximal runs of samples
\* spaced by at most gap_threshold, which partition the samples; a product
\* of one sample registers the one range (t[0], t[0]).
C20_SubRangesAreMaximalRuns ==
    [][(Len(files') = Len(files) + 1 /\ files'[Len(files')] /= <<>>) =>
          LET t == files'[Len(files')]
              registered == {r \in Elements(ranges') : r[3] = Len(files')}
          IN  /\ registered
                     = {<<t[w[1]], t[w[2]], Len(files')>> : w \in MaximalRuns(t)}
              /\ \A i \in 1..Len(t) :
                     Cardinality({w \in MaximalRuns(t) :
                                     w[1] <= i /\ i <= w[2]}) = 1
              /\ Len(t) = 1 => registered = {<<t[1], t[1], Len(files')>>}]_vars

\* C20 witness: a product with a gap is registered as two sub-ranges, one
\* of them of a single sample
C20_Witness ==
    /\ Len(files) = 1
    /\ files[1] = <<0, SAMPLING, 3 * SAMPLING>>
    /\ ranges = <<<<0, SAMPLING, 1>>, <<3 * SAMPLING, 3 * SAMPLING, 1>>>>

\* C28: with the configuration of main (gap_threshold = 1.5*sampling,
\* end_margin = sampling), whenever process_ranges closes a block at a gap
\* the END point's timestamp, P.end + margin, is strictly less than the
\* timestamp of the START point of the next block, R.start.
C28_EndBeforeNextStart ==
    \A f \in Frames :
        LET times == times_of(acc[f])
            types == type_flags_of(acc[f])
        IN  \A i \in 1..(Len(types) - 1) :
                (types[i] = FLAG_END /\ types[i + 1] = FLAG_START) =>
                    /\ times[i] < times[i + 1]
                    /\ \E k \in 2..Len(ranges) :
                           /\ OpsOf(CallsOf(k, f))[1] = "set_end"
                           /\ times[i] = ranges[k - 1][2] + SAMPLING
                           /\ times[i + 1] = ranges[k][1]

\* C28 witness: the walk has closed a block at a gap and begun the next
C28_Witness ==
    /\ Returned
    /\ Gaps /= {}
    /\ \E i \in 1..(Len(type_flags_of(acc[LABEL_GEO])) - 1) :
          /\ type_flags_of(acc[LABEL_GEO])[i] = FLAG_END
          /\ type_flags_of(acc[LABEL_GEO])[i + 1] = FLAG_START
          /\ times_of(acc[LABEL_GEO])[i] + SAMPLING
                 = times_of(acc[LABEL_GEO])[i + 1]

\* ------------------------------------------------------ window claims
\* the window of the call and the series of frame f searched in it
TheWindow == Window(files[1], telemetry)
Values(f) == get_values(f, TheWindow.lats)

\* C21: set_start on a window of at least 2 samples appends exactly one
\* START point, at the first sample's timestamp, with orbit_direction
\* ASCENDING if value[1] - value[0] >= 0 and DESCENDING otherwise, and this
\* START point precedes any MIDDLE point the call appends from the
\* unfiltered first three samples.
C21_SetStart ==
    (pc = "set_start" /\ Len(files[1]) >= 2) =>
        /\ error = ""
        /\ \A f \in Frames :
              LET a == acc[f]
                  times == times_of(a)
                  types == type_flags_of(a)
                  head == PySlice(Values(f), 0, 3)
              IN  /\ Positions(a, FLAG_START) = {1}
                  /\ times[1] = files[1][1]
                  /\ pass_flags_of(a)[1] =
                         (IF Values(f)[2] - Values(f)[1] >= 0
                          THEN FLAG_ASCENDING ELSE FLAG_DESCENDING)
                  /\ Len(types) = 1 + Len(lookup_extrema(head))
                  /\ \A i \in 2..Len(types) :
                         /\ types[i] = FLAG_MIDDLE
                         /\ times[i] > times[1]

\* C21 witness: set_start on a window with a level head and an extremum in
\* its first three samples has appended a START and a MIDDLE point
C21_Witness ==
    /\ pc = "set_start"
    /\ Len(files[1]) >= 4
    /\ Values(LABEL_GEO)[1] = Values(LABEL_GEO)[2]
    /\ type_flags_of(acc[LABEL_GEO]) = <<FLAG_START, FLAG_MIDDLE>>
    /\ pass_flags_of(acc[LABEL_GEO])[1] = FLAG_ASCENDING

\* C22: set_end first appends the MIDDLE points found in the unfiltered
\* last three samples and then exactly one END point, at the last sample's
\* time plus the margin, with orbit_direction UNDEFINED; the END time is
\* strictly greater than the last sample's time and than the time of every
\* MIDDLE point the call appended.
C22_SetEnd ==
    (pc = "set_end" /\ Len(files[1]) >= 1) =>
        /\ error = ""
        /\ \A f \in Frames :
              LET a == acc[f]
                  times == times_of(a)
                  types == type_flags_of(a)
                  n == Len(types)
                  last == files[1][Len(files[1])]
                  tail == PySlice(Values(f), -3, Len(Values(f)))
              IN  /\ n = Len(lookup_extrema(tail)) + 1
                  /\ Positions(a, FLAG_END) = {n}
                  /\ times[n] = last + SAMPLING
                  /\ pass_flags_of(a)[n] = FLAG_UNDEFINED
                  /\ times[n] > last
                  /\ \A i \in 1..(n - 1) :
                         /\ types[i] = FLAG_MIDDLE
                         /\ times[i] /= NaT
                         /\ times[i] < times[n]

\* C22 witness: set_end on a window with an extremum in its last three
\* samples has appended a MIDDLE point and then the END point
C22_Witness ==
    /\ pc = "set_end"
    /\ Len(files[1]) >= 4
    /\ type_flags_of(acc[LABEL_GEO]) = <<FLAG_MIDDLE, FLAG_END>>
    /\ pass_flags_of(acc[LABEL_GEO]) = <<FLAG_ASCENDING, FLAG_UNDEFINED>>

\* the series y[0..n-1] as a function of the 0-based index
At(y, i) == y[i + 1]

\* d[i] = (y[i+1] - y[i] >= 0)
Direction(y, i) == At(y, i + 1) - At(y, i) >= 0

\* the interior indices i, 1 <= i <= n-2, at which d[i-1] /= d[i]
Flips(y) ==
    {i \in 1..(Len(y) - 2) : Direction(y, i - 1) /= Direction(y, i)}

\* the series searched by the call made: the filtered one in set_body
Searched(f) ==
    IF pc = "set_body"
    THEN _low_pass_filter(files[1], Values(f))[2]
    ELSE Values(f)

\* C23: for any series y[0..n-1], with d[i] = (y[i+1] - y[i] >= 0),
\* lookup_extrema returns exactly the interior indices i with
\* d[i-1] /= d[i], in ascending order, one MIDDLE point is emitted per such
\* index, and for n < 3 no index is returned.
C23_LookupExtrema ==
    pc \in {"_set_body", "set_body"} =>
        \A f \in Frames :
            LET y == Searched(f)
                index == lookup_extrema(y)
            IN  /\ index = SetToSortedSeq(Flips(y))
                /\ type_flags_of(acc[f])
                       = [j \in 1..Cardinality(Flips(y)) |-> FLAG_MIDDLE]
                /\ Len(y) < 3 => index = <<>>

\* C23 witness: _set_body on a series of six samples that turns at each
\* of its four interior indices has emitted four MIDDLE points
C23_Witness ==
    /\ pc = "_set_body"
    /\ Len(files[1]) = 6
    /\ lookup_extrema(Values(LABEL_GEO)) = <<1, 2, 3, 4>>
    /\ Len(type_flags_of(acc[LABEL_GEO])) = 4

\* three times the box-car mean of y: the sums of three neighbours
Smoothed(y) == [i \in 1..Max(Len(y) - 2, 0) |-> y[i] + y[i + 1] + y[i + 2]]

\* the series in which the call made looks for its MIDDLE points
SearchedBy(f) ==
    CASE pc = "set_start" -> PySlice(Values(f), 0, 3)
      [] pc = "set_end" -> PySlice(Values(f), -3, Len(Values(f)))
      [] pc = "set_body" -> Smoothed(Values(f))
      [] OTHER -> Values(f)

\* the directions of the MIDDLE points of accumulator a, in their order
MiddleDirections(a) ==
    LET mid == MiddlePositions(a)
    IN  [j \in 1..Len(mid) |-> pass_flags_of(a)[mid[j]]]

\* C24: every MIDDLE point's orbit_direction is ASCENDING if the series
\* value at the candidate index is < 0 and DESCENDING otherwise, whether
\* the candidate is a local maximum or a local minimum; the value tested is
\* the box-car filtered one in set_body and the unfiltered one in set_start
\* and set_end.
C24_DirectionFromSign ==
    (pc \in {"set_start", "set_end", "set_body", "_set_body"} /\ error = "") =>
        \A f \in Frames :
            LET y == SearchedBy(f)
                index == SetToSortedSeq(Flips(y))
            IN  MiddleDirections(acc[f])
                    = [j \in 1..Len(index) |->
                          IF At(y, index[j]) < 0 THEN FLAG_ASCENDING
                          ELSE FLAG_DESCENDING]

\* C24 witness: a local maximum below zero and a local minimum below zero
\* are both ASCENDING, a local maximum above zero and a local minimum at
\* zero both DESCENDING
C24_Witness ==
    /\ pc = "_set_body"
    /\ TheWindow.lats = <<-2, -1, -2, 1, 0, 1>>
    /\ MiddleDirections(acc[LABEL_GEO])
           = <<FLAG_ASCENDING, FLAG_ASCENDING, FLAG_DESCENDING, FLAG_DESCENDING>>

\* the sample times that go with the series SearchedBy(f)
SearchedAt(times) ==
    CASE pc = "set_start" -> PySlice(times, 0, 3)
      [] pc = "set_end" -> PySlice(times, -3, Len(times))
      [] pc = "set_body" -> PySlice(times, 1, -1)
      [] OTHER -> times

\* C26: division by zero never occurs in find_extrema: for strictly
\* increasing sample times, at every candidate index returned by
\* lookup_extrema the denominator a1*b2 - a2*b1 is non-zero, plateaus with
\* y[i] = y[i-1] or y[i+1] = y[i] included.
C26_NoDivisionByZero ==
    (pc \in {"set_start", "set_end", "set_body", "_set_body"} /\ error = "") =>
        \A f \in Frames :
            LET x == SearchedAt(files[1])
                y == SearchedBy(f)
                index == lookup_extrema(y)
            IN  /\ \A j \in 1..Len(index) :
                       find_extrema_terms(x, y, index[j]).den /= 0
                /\ \A i \in Positions(acc[f], FLAG_MIDDLE) :
                       times_of(acc[f])[i] /= NaT

\* C26 witness: a candidate on a plateau, y[i] = y[i-1], of unevenly
\* spaced samples got its refined time
C26_Witness ==
    /\ pc = "_set_body"
    /\ files[1] = <<0, SAMPLING, 3 * SAMPLING>>
    /\ TheWindow.lats = <<0, 0, -1>>
    /\ times_of(acc[LABEL_GEO]) = <<500>>

\* the float64 times find_extrema computes for the candidates of the call
Refined(f) ==
    LET index == lookup_extrema(Searched(f))
    IN  [j \in 1..Len(index) |->
            find_extrema(SearchedAt(files[1]), Searched(f), index[j])]

\* the window is evenly spaced, with period h
Period == files[1][2] - files[1][1]

Uniform ==
    /\ Len(files[1]) >= 3
    /\ \A i \in 1..(Len(files[1]) - 1) : files[1][i + 1] - files[1][i] = Period

\* C27: for uniformly spaced sample times with period h, the refined time
\* computed by find_extrema for a candidate index i lies in the closed
\* interval [x[i] - h/2, x[i] + h/2]; consequently the refined times of
\* successive candidates of one call are non-decreasing, and two adjacent
\* candidates i and i+1 receive the same refined time exactly when
\* y[i] = y[i+1].
C27_RefinedWithinHalfStep ==
    (pc \in {"_set_body", "set_body"} /\ Uniform) =>
        \A f \in Frames :
            LET x == SearchedAt(files[1])
                y == Searched(f)
                index == lookup_extrema(y)
                refined == Refined(f)
            IN  /\ \A j \in 1..Len(index) :
                       /\ refined[j] /= nan
                       /\ 2 * refined[j]
                              >= (2 * x[index[j] + 1] - Period) * FLOAT64_STEPS
                       /\ 2 * refined[j]
                              <= (2 * x[index[j] + 1] + Period) * FLOAT64_STEPS
                /\ \A j \in 1..(Len(index) - 1) : refined[j] <= refined[j + 1]
                /\ \A j \in 1..(Len(index) - 1) :
                       index[j + 1] = index[j] + 1 =>
                           (refined[j] = refined[j + 1]
                               <=> At(y, index[j]) = At(y, index[j] + 1))

\* the candidate i is a local maximum (d flips true to false) or a local
\* minimum (d flips false to true)
IsMaximum(y, i) == Direction(y, i - 1) /\ ~Direction(y, i)
IsMinimum(y, i) == ~Direction(y, i - 1) /\ Direction(y, i)

\* C30: within one call of the extremum algorithm the candidates alternate
\* between local maxima and local minima; hence the MIDDLE directions the
\* call emits strictly alternate if every local-maximum candidate has a
\* value >= 0 and every local-minimum candidate a value < 0, and two
\* consecutive MIDDLE points of equal direction are emitted whenever two
\* adjacent candidates have values of the same sign class.
C30_CandidatesAlternate ==
    pc \in {"_set_body", "set_body"} =>
        \A f \in Frames :
            LET y == Searched(f)
                index == lookup_extrema(y)
                directions == MiddleDirections(acc[f])
                n == Len(index)
            IN  /\ Len(directions) = n
                /\ \A j \in 1..n :
                       IsMaximum(y, index[j]) \/ IsMinimum(y, index[j])
                /\ \A j \in 1..(n - 1) :
                       IsMaximum(y, index[j]) /= IsMaximum(y, index[j + 1])
                /\ (\A j \in 1..n :
                        /\ IsMaximum(y, index[j]) => At(y, index[j]) >= 0
                        /\ IsMinimum(y, index[j]) => At(y, index[j]) < 0)
                       => \A j \in 1..(n - 1) :
                              directions[j] /= directions[j + 1]
                /\ \A j \in 1..(n - 1) :
                       ((At(y, index[j]) < 0) = (At(y, index[j + 1]) < 0))
                           => directions[j] = directions[j + 1]

\* C30 witness: four candidates, maxima above zero and minima below, got
\* alternating directions
C30_Witness ==
    /\ pc = "_set_body"
    /\ TheWindow.lats = <<-1, 1, -1, 1, -1, 1>>
    /\ MiddleDirections(acc[LABEL_GEO])
           = <<FLAG_DESCENDING, FLAG_ASCENDING, FLAG_DESCENDING, FLAG_ASCENDING>>

\* ------------------------------------------------- _push_range claims
\* the stored ranges rs after the ranges whose start s satisfies
\* start <= s < end have been replaced by the one new range
Replaced(rs, start, end, product) ==
    SelectSeq(rs, LAMBDA r : r[1] < start)
        \o <<<<start, end, product>>>>
        \o SelectSeq(rs, LAMBDA r : ~(r[1] < start) /\ ~(r[1] < end))

\* the maximal runs of t as <<start, end>> pairs, by ascending start
RunsOf(t) ==
    LET starts == SetToSortedSeq({t[w[1]] : w \in MaximalRuns(t)})
    IN  [k \in 1..Len(starts) |->
            <<starts[k],
              t[(CHOOSE w \in MaximalRuns(t) : t[w[1]] = starts[k])[2]]>>]

\* the registry after the runs from the k-th on have been pushed one by one
RECURSIVE ReplacedAll(_, _, _, _)
ReplacedAll(rs, runs, k, product) ==
    IF k > Len(runs) THEN rs
    ELSE ReplacedAll(Replaced(rs, runs[k][1], runs[k][2], product),
                     runs, k + 1, product)

\* C25: _push_range(start, end, product) removes exactly the stored ranges
\* whose own start s satisfies start <= s < end and inserts the new range
\* in their place; a stored range that begins before start is kept even
\* if it ends at or after start, and one that begins exactly at end is kept.
C25_PushRangeReplaces ==
    [][(Len(files') = Len(files) + 1) =>
          /\ ranges' = ReplacedAll(ranges, RunsOf(files'[Len(files')]), 1,
                                   Len(files'))
          /\ Len(RunsOf(files'[Len(files')])) = 1 =>
                 LET run == RunsOf(files'[Len(files')])[1]
                 IN  \A r \in Elements(ranges) :
                         (r[1] < run[1] \/ r[1] = run[2]) =>
                             \E i \in 1..Len(ranges') : ranges'[i] = r]_vars

\* C25 witness: the second product was pushed over a range that begins
\* before it and ends after it, and that range is still stored
C25_Witness ==
    /\ Len(files) = 2
    /\ ranges = <<<<0, 3 * SAMPLING, 1>>, <<SAMPLING, 2 * SAMPLING, 2>>>>

====
